---- MODULE Spec2Model ----
(***************************************************************************)
(* Weekly planner: the time-grid geometry, the snap rule, the event model, *)
(* the drag/resize handlers of an event box and the .ics import            *)
(* (src/weeklyplanner.py).                                                 *)
(*                                                                         *)
(* Units.  Date-times are minutes since week_start (Monday 00:00), so the  *)
(* calendar day of a date-time t is t \div MinutesPerDay and its time of   *)
(* day is t % MinutesPerDay.  Horizontal pixel positions are integers.     *)
(* Vertical pixel positions are kept exactly, in units of 1/total_minutes  *)
(* of a pixel: p pixels are Px(p) = p * total_minutes units.  The scale    *)
(* factor grid_height / total_minutes is kept as its numerator             *)
(* minute_pixel_factor, so minutes * factor is minutes *                   *)
(* minute_pixel_factor units and a division by the factor is a division    *)
(* of units by minute_pixel_factor.  The source computes these quotients   *)
(* in double precision; the sampled grid heights, durations and pointer    *)
(* positions are ones on which the double quotient truncates and snaps to  *)
(* the same minute as the exact one.                                       *)
(***************************************************************************)
EXTENDS Integers, Sequences, FiniteSets, TLC

START_HOUR == 6
END_HOUR == 24
SNAP_MINUTES == 15
COLUMN_WIDTH == 160
HEADER_HEIGHT == 26
PADDING == 4
HANDLE_HEIGHT == 8
TIME_LABEL_WIDTH == 44
DEFAULT_GRID_MIN_HEIGHT == 500
\* set_size: the smallest column width and the smallest grid height
MIN_COLUMN_WIDTH == 80
MIN_GRID_HEIGHT == 300
\* CalendarScene.n_days
N_DAYS == 7
\* calendar_zoom is counted in steps of 0.25 (ZOOM_STEPS_PER_UNIT steps are
\* 1.0): it starts at 1.0 and is kept within 0.5 and 3.0
ZOOM_STEPS_PER_UNIT == 4
INITIAL_ZOOM == 4
MIN_ZOOM == 2
MAX_ZOOM == 12
\* the duration import_events_from_ics gives an event without one
DEFAULT_IMPORT_DURATION == 60

MinutesPerDay == 24 * 60
\* CalendarScene.total_minutes
total_minutes == (END_HOUR - START_HOUR) * 60
\* MainWindow.week_start, the origin of the date-times
week_start == 0

Max(a, b) == IF a >= b THEN a ELSE b
Min(a, b) == IF a <= b THEN a ELSE b
\* p pixels in vertical units
Px(p) == p * total_minutes
\* Python's int() of the quotient n / d (d > 0): truncation toward zero
IntOfQuotient(n, d) == IF n >= 0 THEN n \div d ELSE -((-n) \div d)

(***************************************************************************)
(* Snap rule                                                               *)
(***************************************************************************)
\* mutant: the remainder test reads the minutes instead of the remainder
snap_minutes_tests_minutes(minutes) ==
    LET r == minutes % SNAP_MINUTES
        m == IF 2 * minutes >= SNAP_MINUTES THEN minutes + (SNAP_MINUTES - r)
             ELSE minutes - r
    IN  Max(0, m)

\* mutant: always rounds down
snap_minutes_floor(minutes) ==
    Max(0, minutes - (minutes % SNAP_MINUTES))

snap_minutes(minutes) ==
    LET r == minutes % SNAP_MINUTES
        m == IF 2 * r >= SNAP_MINUTES THEN minutes + (SNAP_MINUTES - r)
             ELSE minutes - r
    IN  Max(0, m)

(***************************************************************************)
(* Weeks.  The origin of the date-times is a Monday 00:00, so the day      *)
(* number of t is t \div MinutesPerDay (floored, also before the origin)   *)
(* and its weekday is the day number modulo 7, Monday being 0.             *)
(***************************************************************************)
\* datetime.weekday()
weekday(date) == (date \div MinutesPerDay) % 7

\* mutant: the week is counted from Sunday
week_monday_from_sunday(date) ==
    date - ((weekday(date) + 1) % 7) * MinutesPerDay

week_monday(date) ==
    date - ((weekday(date) - 0) % 7) * MinutesPerDay

\* MainWindow.__init__: week_monday(today) with hour, minute, second and
\* microsecond replaced by 0
WeekStartOf(today) ==
    LET monday == week_monday(today)
    IN  monday - (monday % MinutesPerDay)

(***************************************************************************)
(* CalendarScene: geometry.  A scene is the record of its fields.          *)
(***************************************************************************)
\* CalendarScene.__init__
NewScene ==
    [column_width |-> COLUMN_WIDTH,
     grid_height |-> DEFAULT_GRID_MIN_HEIGHT,
     scene_width |-> COLUMN_WIDTH * N_DAYS + TIME_LABEL_WIDTH,
     minute_pixel_factor |-> DEFAULT_GRID_MIN_HEIGHT]

minutes_to_pixels(scene, minutes) == minutes * scene.minute_pixel_factor

\* mutant: the quotient is taken by the constructor's scale
pixels_to_minutes_default_scale(scene, pixels) ==
    LET q == pixels \div DEFAULT_GRID_MIN_HEIGHT
        twice_rest == 2 * (pixels % DEFAULT_GRID_MIN_HEIGHT)
    IN  IF twice_rest < DEFAULT_GRID_MIN_HEIGHT THEN q
        ELSE IF twice_rest > DEFAULT_GRID_MIN_HEIGHT THEN q + 1
        ELSE IF q % 2 = 0 THEN q ELSE q + 1

\* int(round(pixels / factor)) for pixels >= 0: Python's round takes the
\* nearest integer and, of two equally near, the even one
pixels_to_minutes(scene, pixels) ==
    LET q == pixels \div scene.minute_pixel_factor
        twice_rest == 2 * (pixels % scene.minute_pixel_factor)
    IN  IF twice_rest < scene.minute_pixel_factor THEN q
        ELSE IF twice_rest > scene.minute_pixel_factor THEN q + 1
        ELSE IF q % 2 = 0 THEN q ELSE q + 1

day_index_to_x(scene, day_index) == TIME_LABEL_WIDTH + day_index * scene.column_width

\* mutant: the upper clamp is forgotten
x_to_day_index_no_upper_clamp(scene, x) ==
    Max(0, (x - TIME_LABEL_WIDTH) \div scene.column_width)

x_to_day_index(scene, x) ==
    LET idx == (x - TIME_LABEL_WIDTH) \div scene.column_width
    IN  Max(0, Min(N_DAYS - 1, idx))

day_bottom_y(scene) == Px(HEADER_HEIGHT + scene.grid_height)

\* mutant: the scale factor is left as the constructor set it
ResizedScene_stale_factor(pixel_width, pixel_height) ==
    LET cw == Max(MIN_COLUMN_WIDTH, (pixel_width - TIME_LABEL_WIDTH) \div N_DAYS)
        gh == Max(MIN_GRID_HEIGHT, pixel_height)
    IN  [column_width |-> cw,
         grid_height |-> gh,
         scene_width |-> cw * N_DAYS + TIME_LABEL_WIDTH,
         minute_pixel_factor |-> DEFAULT_GRID_MIN_HEIGHT]

\* set_size, the fields it recomputes (the refresh is in the action)
ResizedScene(pixel_width, pixel_height) ==
    LET cw == Max(MIN_COLUMN_WIDTH, (pixel_width - TIME_LABEL_WIDTH) \div N_DAYS)
        gh == Max(MIN_GRID_HEIGHT, pixel_height)
    IN  [column_width |-> cw,
         grid_height |-> gh,
         scene_width |-> cw * N_DAYS + TIME_LABEL_WIDTH,
         minute_pixel_factor |-> gh]

(***************************************************************************)
(* Objects.  heap maps each live CalendarEvent object (its identity, a     *)
(* number) to its fields; the model's list and the items hold identities.  *)
(* A world is the record [heap, events, items] the handlers transform:     *)
(* events is CalendarModel.events, items the scene's EventItems in the     *)
(* order they were added.                                                  *)
(***************************************************************************)
NoTz == "naive"

\* the dataclass CalendarEvent; start is the wall-clock date-time and tz its tzinfo
CalendarEvent(title, start, tz, duration_min) ==
    [title |-> title, start |-> start, tz |-> tz,
     duration_min |-> duration_min, color_idx |-> 0]

\* EventItem.__init__, the fields it sets before it places the item; x, y are
\* the item's position (a new QGraphicsItem is at the origin), grab whether
\* the item holds the pressed pointer, selected its selection flag
NewEventItem(ev) ==
    [ev |-> ev, x |-> 0, y |-> 0, resizing |-> FALSE,
     drag_start_y |-> 0, initial_height |-> 0,
     selected |-> FALSE, grab |-> FALSE]

\* EventItem.boundingRect().height()
BoxHeight(scene, e) == minutes_to_pixels(scene, e.duration_min)

\* mutant: the padding is subtracted from the column's left edge
itemChange_padding_subtracted(scene, it, e, new_x, new_y) ==
    IF ~it.resizing
    THEN LET col_idx == x_to_day_index(scene, new_x)
             col_x == day_index_to_x(scene, col_idx) - PADDING
             max_y == day_bottom_y(scene) - minutes_to_pixels(scene, e.duration_min)
             y == Min(Max(Px(HEADER_HEIGHT), new_y), max_y)
             minutes_from_start ==
                 snap_minutes(IntOfQuotient(y - Px(HEADER_HEIGHT),
                                            scene.minute_pixel_factor))
         IN  [x |-> col_x,
              y |-> Px(HEADER_HEIGHT) + minutes_to_pixels(scene, minutes_from_start),
              start |-> week_start + col_idx * MinutesPerDay + START_HOUR * 60
                        + minutes_from_start,
              tz |-> NoTz]
    ELSE [x |-> new_x, y |-> new_y, start |-> e.start, tz |-> e.tz]

\* EventItem.itemChange for ItemPositionChange: the position the item takes
\* and the start written to its event (unchanged while resizing)
itemChange(scene, it, e, new_x, new_y) ==
    IF ~it.resizing
    THEN LET col_idx == x_to_day_index(scene, new_x)
             col_x == day_index_to_x(scene, col_idx) + PADDING
             max_y == day_bottom_y(scene) - minutes_to_pixels(scene, e.duration_min)
             y == Min(Max(Px(HEADER_HEIGHT), new_y), max_y)
             minutes_from_start ==
                 snap_minutes(IntOfQuotient(y - Px(HEADER_HEIGHT),
                                            scene.minute_pixel_factor))
         IN  [x |-> col_x,
              y |-> Px(HEADER_HEIGHT) + minutes_to_pixels(scene, minutes_from_start),
              start |-> week_start + col_idx * MinutesPerDay + START_HOUR * 60
                        + minutes_from_start,
              tz |-> NoTz]
    ELSE [x |-> new_x, y |-> new_y, start |-> e.start, tz |-> e.tz]

\* mutant: the position change also cuts the duration to what is left of the
\* day under the new top
setPos_trims_duration(scene, w, k, new_x, new_y) ==
    LET it == w.items[k]
    IN  IF new_x = it.x /\ new_y = it.y THEN w
        ELSE LET r == itemChange(scene, it, w.heap[it.ev], new_x, new_y)
                 left == (day_bottom_y(scene) - r.y) \div scene.minute_pixel_factor
             IN  [w EXCEPT !.heap[it.ev].start = r.start,
                           !.heap[it.ev].tz = r.tz,
                           !.heap[it.ev].duration_min = Min(@, left),
                           !.items[k].x = r.x,
                           !.items[k].y = r.y]

\* setPos on item k: the item has ItemSendsGeometryChanges set, so a position
\* other than its current one is passed through itemChange
setPos(scene, w, k, new_x, new_y) ==
    LET it == w.items[k]
    IN  IF new_x = it.x /\ new_y = it.y THEN w
        ELSE LET r == itemChange(scene, it, w.heap[it.ev], new_x, new_y)
             IN  [w EXCEPT !.heap[it.ev].start = r.start,
                           !.heap[it.ev].tz = r.tz,
                           !.items[k].x = r.x,
                           !.items[k].y = r.y]

\* EventItem._update_geometry_from_event on item k
update_geometry_from_event(scene, w, k) ==
    LET e == w.heap[w.items[k].ev]
        delta_days == (e.start \div MinutesPerDay) - (week_start \div MinutesPerDay)
        col_idx == Max(0, Min(6, delta_days))
        col_x == day_index_to_x(scene, col_idx) + PADDING
        hour == (e.start % MinutesPerDay) \div 60
        minute == e.start % 60
        minutes_since_start ==
            Max(0, Min((END_HOUR - START_HOUR) * 60 - SNAP_MINUTES,
                       (hour - START_HOUR) * 60 + minute))
        snapped == snap_minutes(minutes_since_start)
        y == Px(HEADER_HEIGHT) + minutes_to_pixels(scene, snapped)
    IN  setPos(scene, w, k, col_x, y)

\* CalendarScene.add_event_item: a new EventItem for object ev, placed
add_event_item(scene, w, ev) ==
    update_geometry_from_event(
        scene, [w EXCEPT !.items = Append(@, NewEventItem(ev))], Len(w.items) + 1)

\* the loop of refresh_background over model.events[k..]
RECURSIVE AddItemsFrom(_, _, _)
AddItemsFrom(scene, w, k) ==
    IF k > Len(w.events) THEN w
    ELSE AddItemsFrom(scene, add_event_item(scene, w, w.events[k]), k + 1)

\* mutant: the items are kept as they are
refresh_background_keeps_items(scene, w) == w

\* mutant: the scene is not cleared before the items are added
refresh_background_without_clear(scene, w) ==
    AddItemsFrom(scene, w, 1)

\* CalendarScene.refresh_background: clear() drops every item, then one item
\* per entry of the model
refresh_background(scene, w) ==
    AddItemsFrom(scene, [w EXCEPT !.items = << >>], 1)

\* mutant: removal by field equality (==) instead of identity (is)
remove_event_by_equality(w, ev) ==
    [w EXCEPT !.events = SelectSeq(@, LAMBDA o : w.heap[o] # w.heap[ev])]

\* CalendarModel.remove_event
remove_event(w, ev) ==
    [w EXCEPT !.events = SelectSeq(@, LAMBDA o : o # ev)]

\* CalendarModel.add_event
add_event(w, ev) ==
    [w EXCEPT !.events = Append(@, ev)]

\* a new object: the least identity not live
NewId(w) == CHOOSE n \in 1..(Cardinality(DOMAIN w.heap) + 1) : n \notin DOMAIN w.heap

\* the object fields e allocated at identity ev
Allocate(w, ev, e) ==
    [w EXCEPT !.heap = [o \in DOMAIN w.heap \cup {ev} |->
                            IF o = ev THEN e ELSE w.heap[o]]]

\* objects no list entry and no item refers to are freed
Collect(w) ==
    LET live == {w.events[i] : i \in 1..Len(w.events)}
                \cup {w.items[k].ev : k \in 1..Len(w.items)}
    IN  [w EXCEPT !.heap = [o \in live |-> w.heap[o]]]

(***************************************************************************)
(* Import parser                                                           *)
(***************************************************************************)
NoName == "no name"

\* Sunday 23:50 of the shown week, as a date-time
SundayLate == 6 * MinutesPerDay + 23 * 60 + 50

\* VEVENTs the sampled files hold: begin is the wall-clock start (has_begin:
\* whether there is one), tz its tzinfo, seconds the duration (0: none, or a
\* zero duration)
EntryA == [name |-> "A", has_begin |-> TRUE, begin |-> 10 * 60 + 7,
           tz |-> NoTz, seconds |-> 50 * 60]
EntryB == [name |-> "B", has_begin |-> TRUE, begin |-> SundayLate,
           tz |-> "-02:00", seconds |-> 7 * 60 + 30]
EntryC == [name |-> NoName, has_begin |-> TRUE, begin |-> week_start,
           tz |-> NoTz, seconds |-> 0]
EntryD == [name |-> "D", has_begin |-> TRUE, begin |-> week_start + 7 * MinutesPerDay,
           tz |-> NoTz, seconds |-> 30 * 60]
EntryE == [name |-> "E", has_begin |-> TRUE, begin |-> week_start - 1,
           tz |-> "+01:00", seconds |-> 30 * 60]
EntryG == [name |-> "G", has_begin |-> FALSE, begin |-> 0,
           tz |-> NoTz, seconds |-> 30 * 60]

\* the UTC offset of a tzinfo, in minutes
UtcOffset(tz) ==
    CASE tz = "-02:00" -> -120
      [] tz = "+01:00" -> 60
      [] OTHER -> 0

\* the files a user may pick: readable calendars, a missing file, a file that
\* cannot be read, a file that is no calendar (entries: what a lenient parser
\* would have made of it)
OneEventCalendars ==
    { [kind |-> "calendar", entries |-> << EntryA >>],
      [kind |-> "calendar", entries |-> << EntryG, EntryB >>] }

Sources ==
    OneEventCalendars \cup
    { [kind |-> "calendar", entries |-> << EntryD >>],
      [kind |-> "calendar", entries |-> << EntryA, EntryD, EntryB, EntryE, EntryC >>],
      [kind |-> "missing", entries |-> << >>],
      [kind |-> "unreadable", entries |-> << >>],
      [kind |-> "unparsable", entries |-> << EntryA >>] }

\* the loop of import_events_from_ics over cal.events[k..]
RECURSIVE ParsedFrom(_, _)
ParsedFrom(entries, k) ==
    IF k > Len(entries) THEN << >>
    ELSE LET entry == entries[k]
             duration == IF entry.seconds # 0
                         THEN entry.seconds \div 60 ELSE DEFAULT_IMPORT_DURATION
             title == IF entry.name = NoName THEN "Imported Event" ELSE entry.name
         IN  IF ~entry.has_begin THEN ParsedFrom(entries, k + 1)
             ELSE << CalendarEvent(title, entry.begin, entry.tz, duration) >>
                  \o ParsedFrom(entries, k + 1)

\* mutant: an error while reading or parsing gives the events made so far
import_events_from_ics_lenient(source) ==
    [kind |-> "list", list |-> ParsedFrom(source.entries, 1)]

\* import_events_from_ics: the list of events, or the exception as a value
import_events_from_ics(source) ==
    IF source.kind = "calendar"
    THEN [kind |-> "list", list |-> ParsedFrom(source.entries, 1)]
    ELSE [kind |-> "exception", list |-> << >>]

\* mutant: the upper bound of the shown week is inclusive
ShownThisWeek_inclusive_end(ev_start, tz) ==
    ev_start >= week_start /\ ev_start <= week_start + 7 * MinutesPerDay

\* import_events: the test on an event's start (replace(tzinfo=None) keeps
\* the wall-clock fields)
ShownThisWeek(ev_start, tz) ==
    LET shown_start == week_start
        shown_end == week_start + 7 * MinutesPerDay
        naive == ev_start
    IN  naive >= shown_start /\ naive < shown_end

\* the loop of import_events over result[k..]: acc is the record of the world
\* and of the indices accepted so far
RECURSIVE ImportFrom(_, _, _, _)
ImportFrom(scene, acc, result, k) ==
    IF k > Len(result) THEN acc
    ELSE LET ev == result[k]
         IN  IF ShownThisWeek(ev.start, ev.tz)
             THEN LET o == NewId(acc.w)
                      w1 == add_event(Allocate(acc.w, o, ev), o)
                  IN  ImportFrom(scene,
                                 [w |-> add_event_item(scene, w1, o),
                                  accepted |-> Append(acc.accepted, k)],
                                 result, k + 1)
             ELSE ImportFrom(scene, acc, result, k + 1)

(***************************************************************************)
(* State                                                                   *)
(***************************************************************************)
VARIABLES
    scene,   \* the CalendarScene's geometry fields
    heap,    \* the live CalendarEvent objects
    events,  \* CalendarModel.events: identities, in insertion order
    items,   \* the scene's EventItems
    calendar_zoom,  \* MainWindow.calendar_zoom, in steps of 0.25
    last     \* the handler or function that ran last, with what it was given

vars == << scene, heap, events, items, calendar_zoom, last >>

World == [heap |-> heap, events |-> events, items |-> items]

Becomes(w) ==
    /\ heap' = w.heap
    /\ events' = w.events
    /\ items' = w.items

\* bounds of the model
MaxDragEvents == 1
MaxEvents == 3
MaxMinutes == 1200
MaxX == 1300
MaxDate == 21600

\* sampled inputs
Titles == {"Gym"}
\* viewport sizes handed to set_size (width, height): a small window, the
\* initial size, the grid at zoom 3.0
ViewportSizes == { << 524, 250 >>, << 1164, 500 >>, << 1164, 1500 >> }

\* more sizes for the column geometry: a medium window, a window narrower
\* than the gutter
GeomSizes == ViewportSizes \cup { << 1000, 700 >>, << 30, 10 >> }

\* the first whole pixel row at or below the given minute of the grid
RowAtMinute(sc, m) ==
    HEADER_HEIGHT + (minutes_to_pixels(sc, m) + total_minutes - 1) \div total_minutes

\* x positions: left of the gutter, inside the third column, the right edge
\* of the last column
PointerXs(sc) ==
    { TIME_LABEL_WIDTH - 20, day_index_to_x(sc, 2) + 10, day_index_to_x(sc, N_DAYS) }

\* proposed y positions of a move: above the header, 127 minutes into the
\* grid, below the grid
ProposedYs(sc) ==
    { Px(0), Px(HEADER_HEIGHT) + minutes_to_pixels(sc, 127),
      day_bottom_y(sc) + Px(40) }

\* drop rows (whole pixels): the header line, the row of minute 127, the
\* grid's bottom line
DropRows(sc) ==
    { HEADER_HEIGHT, RowAtMinute(sc, 127), HEADER_HEIGHT + sc.grid_height }

\* where in a box of height h the pointer goes down: at its top, or at the
\* topmost point of its resize strip
PressSpots == { "top", "strip" }
PressY(h, spot) == IF spot = "top" THEN 0 ELSE Max(0, h - Px(HANDLE_HEIGHT))

\* pointer travel of a resize, from the press: far up, up by 5 minutes,
\* far down
ResizeDys(sc) == { -Px(2000), -minutes_to_pixels(sc, 5), Px(3000) }

Idle == [op |-> "none"]

\* the interaction state: Idle when no item holds the pointer, else Resizing
\* or Moving by the resizing flag of the item that holds it
Mode(its) ==
    IF \A j \in 1..Len(its) : ~its[j].grab THEN "Idle"
    ELSE IF \E j \in 1..Len(its) : its[j].grab /\ its[j].resizing THEN "Resizing"
    ELSE "Moving"

\* the states a pointer-down arrives in: with one pointer, Idle only; with
\* presses delivered during a session (a second pointer, a synthesized
\* event), every state
OnePointer == { "Idle" }
AnyPointer == { "Idle", "Moving", "Resizing" }

Init ==
    /\ scene = NewScene
    /\ heap = << >>
    /\ events = << >>
    /\ items = << >>
    /\ calendar_zoom = INITIAL_ZOOM
    /\ last = Idle

(***************************************************************************)
(* Handlers                                                                *)
(***************************************************************************)
\* CalendarScene.set_size with one of the sizes
set_size(sizes) ==
    \E size \in sizes :
        LET sc == ResizedScene(size[1], size[2])
        IN  /\ scene' = sc
            /\ Becomes(refresh_background(sc, World))
            /\ last' = [op |-> "set_size"]
            /\ UNCHANGED calendar_zoom

\* MainWindow.toggle_mode, as far as the scene goes
toggle_mode ==
    /\ Becomes(refresh_background(scene, World))
    /\ last' = [op |-> "toggle_mode"]
    /\ UNCHANGED << scene, calendar_zoom >>

\* MainWindow._update_calendar_zoom with the zoom just set: set_size with
\* the viewport's width, among those of sizes, and int(500 * calendar_zoom)
update_calendar_zoom(sizes) ==
    \E size \in sizes :
        LET base_height == DEFAULT_GRID_MIN_HEIGHT
            new_height == (base_height * calendar_zoom') \div ZOOM_STEPS_PER_UNIT
            sc == ResizedScene(size[1], new_height)
        IN  /\ scene' = sc
            /\ Becomes(refresh_background(sc, World))

\* MainWindow.zoom_in
zoom_in(sizes) ==
    /\ calendar_zoom' = Min(MAX_ZOOM, calendar_zoom + 1)
    /\ update_calendar_zoom(sizes)
    /\ last' = [op |-> "zoom_in"]

\* mutant: zooming out has no lower limit but 0
zoom_out_without_floor(sizes) ==
    /\ calendar_zoom' = Max(0, calendar_zoom - 1)
    /\ update_calendar_zoom(sizes)
    /\ last' = [op |-> "zoom_out"]

\* MainWindow.zoom_out
zoom_out(sizes) ==
    /\ calendar_zoom' = Max(MIN_ZOOM, calendar_zoom - 1)
    /\ update_calendar_zoom(sizes)
    /\ last' = [op |-> "zoom_out"]

\* CalendarView.dropEvent of a to-do payload at scene position (x, row), x
\* among xs and row among rows
dropEvent(cap, xs, rows) ==
    /\ Len(events) < cap
    /\ \E title \in Titles, x \in xs, row \in rows :
        LET duration_min == 60
            day_index == x_to_day_index(scene, x)
            y == Max(Px(HEADER_HEIGHT), Min(Px(row), day_bottom_y(scene)))
            minutes_from_day_start ==
                snap_minutes(IntOfQuotient(y - Px(HEADER_HEIGHT),
                                           scene.minute_pixel_factor))
            start_dt == week_start + day_index * MinutesPerDay + START_HOUR * 60
                        + minutes_from_day_start
            o == NewId(World)
            w1 == add_event(
                    Allocate(World, o, CalendarEvent(title, start_dt, NoTz, duration_min)),
                    o)
        IN  /\ Becomes(add_event_item(scene, w1, o))
            /\ last' = [op |-> "drop", ev |-> o, day_index |-> day_index,
                        minutes |-> minutes_from_day_start,
                        x |-> x, row |-> row, duration_min |-> duration_min]
    /\ UNCHANGED << scene, calendar_zoom >>

\* MainWindow.import_events on the file chosen among files
import_events(cap, files) ==
    \E source \in files :
        LET result == import_events_from_ics(source)
        IN  IF result.kind = "exception"
            THEN /\ last' = [op |-> "import_error", source |-> source]
                 /\ UNCHANGED << scene, heap, events, items, calendar_zoom >>
            ELSE LET done == ImportFrom(scene, [w |-> World, accepted |-> << >>],
                                        result.list, 1)
                 IN  /\ Len(done.w.events) <= cap
                     /\ Becomes(done.w)
                     /\ last' = [op |-> "import", source |-> source,
                                 accepted |-> done.accepted,
                                 count_added |-> Len(done.accepted)]
                     /\ UNCHANGED << scene, calendar_zoom >>

\* the loop of keyPressEvent over the selected items, items[1..k]
RECURSIVE DeleteSelectedFrom(_, _)
DeleteSelectedFrom(w, k) ==
    IF k = 0 THEN w
    ELSE IF w.items[k].selected
    THEN DeleteSelectedFrom(
            [remove_event(w, w.items[k].ev) EXCEPT
                !.items = SubSeq(@, 1, k - 1) \o SubSeq(@, k + 1, Len(@))],
            k - 1)
    ELSE DeleteSelectedFrom(w, k - 1)

\* CalendarScene.keyPressEvent for Delete or Backspace
keyPressEvent ==
    /\ \E k \in 1..Len(items) : items[k].selected
    /\ Becomes(Collect(DeleteSelectedFrom(World, Len(items))))
    /\ LET evs == {items[k].ev : k \in {j \in 1..Len(items) : items[j].selected}}
       IN  last' = [op |-> "remove", evs |-> evs, removed |-> {heap[o] : o \in evs}]
    /\ UNCHANGED << scene, calendar_zoom >>

\* EventItem.mousePressEvent, left button, on item k at one of the spots,
\* delivered in one of the states; the handler has no test of its own on the
\* state it is called in
mousePressEvent(spots, states) ==
    /\ Mode(items) \in states
    /\ \E k \in 1..Len(items) :
        LET h == BoxHeight(scene, heap[items[k].ev])
        IN  \E spot \in spots :
              /\ LET local_y == PressY(h, spot) IN
                 IF local_y >= h - Px(HANDLE_HEIGHT)
                 THEN items' = [items EXCEPT ![k].resizing = TRUE,
                                             ![k].drag_start_y = local_y,
                                             ![k].initial_height = h,
                                             ![k].grab = TRUE]
                 ELSE items' = [j \in 1..Len(items) |->
                                   IF j = k
                                   THEN [items[j] EXCEPT !.selected = TRUE, !.grab = TRUE]
                                   ELSE IF items[k].selected THEN items[j]
                                   ELSE [items[j] EXCEPT !.selected = FALSE]]
              /\ last' = [op |-> "press", ev |-> items[k].ev,
                          local_y |-> PressY(h, spot)]
    /\ UNCHANGED << scene, heap, events, calendar_zoom >>

\* mutant: the minimum duration is not enforced
ResizedDuration_no_minimum(sc, it, dy) ==
    LET max_height == day_bottom_y(sc) - it.y
        new_height == Min(it.initial_height + dy, max_height)
    IN  snap_minutes(IntOfQuotient(new_height, sc.minute_pixel_factor))

\* EventItem.mouseMoveEvent while resizing: the duration it writes, dy being
\* event.pos().y() - _drag_start_y
ResizedDuration(sc, it, dy) ==
    LET new_height0 == Max(minutes_to_pixels(sc, SNAP_MINUTES), it.initial_height + dy)
        col_top_scene_y == it.y
        day_bottom_scene_y == day_bottom_y(sc)
        max_height == day_bottom_scene_y - col_top_scene_y
        new_height == Min(new_height0, max_height)
        new_minutes == snap_minutes(IntOfQuotient(new_height, sc.minute_pixel_factor))
    IN  Max(SNAP_MINUTES, new_minutes)

\* EventItem.mouseMoveEvent on the item holding the pointer: a resize step
\* with a pointer travel among dys, or the move of a movable item to a
\* proposed position with its y among ys
mouseMoveEvent(ys, dys) ==
    \E k \in 1..Len(items) :
        /\ items[k].grab
        /\ IF items[k].resizing
           THEN \E dy \in dys :
                  /\ heap' = [heap EXCEPT ![items[k].ev].duration_min =
                                              ResizedDuration(scene, items[k], dy)]
                  /\ last' = [op |-> "resize", ev |-> items[k].ev, dy |-> dy]
                  /\ UNCHANGED << scene, events, items, calendar_zoom >>
           ELSE \E new_x \in PointerXs(scene), new_y \in ys :
                  /\ Becomes(setPos(scene, World, k, new_x, new_y))
                  /\ last' = [op |-> "move", ev |-> items[k].ev,
                              new_x |-> new_x, new_y |-> new_y]
                  /\ UNCHANGED << scene, calendar_zoom >>

\* EventItem.hoverMoveEvent: a pointer-move over item k with no button down
\* (no item holds the pointer); it sets the cursor
hoverMoveEvent ==
    /\ \A j \in 1..Len(items) : ~items[j].grab
    /\ \E k \in 1..Len(items) : last' = [op |-> "hover", ev |-> items[k].ev]
    /\ UNCHANGED << scene, heap, events, items, calendar_zoom >>

\* mutant: the release leaves the resizing flag set
mouseReleaseEvent_keeps_resizing ==
    \E k \in 1..Len(items) :
        /\ items[k].grab
        /\ Becomes([World EXCEPT !.items[k].grab = FALSE])
        /\ last' = [op |-> "release", ev |-> items[k].ev]
        /\ UNCHANGED << scene, calendar_zoom >>

\* EventItem.mouseReleaseEvent on the item holding the pointer
mouseReleaseEvent ==
    \E k \in 1..Len(items) :
        /\ items[k].grab
        /\ LET released == [World EXCEPT !.items[k].grab = FALSE]
           IN  IF items[k].resizing
               THEN Becomes(update_geometry_from_event(
                               scene, [released EXCEPT !.items[k].resizing = FALSE], k))
               ELSE Becomes(released)
        /\ last' = [op |-> "release", ev |-> items[k].ev]
        /\ UNCHANGED << scene, calendar_zoom >>

\* the planner with one event box, through its pointer sessions
Next ==
    \/ set_size(ViewportSizes)
    \/ toggle_mode
    \/ dropEvent(MaxDragEvents, PointerXs(scene), DropRows(scene))
    \/ import_events(MaxDragEvents, OneEventCalendars)
    \/ keyPressEvent
    \/ mousePressEvent(PressSpots, OnePointer)
    \/ mouseMoveEvent(ProposedYs(scene), ResizeDys(scene))
    \/ mouseReleaseEvent
    \/ hoverMoveEvent

Spec == Init /\ [][Next]_vars

\* the planner's event list: drops at one place, imports of one file,
\* selection by a click, removals, resizes of the viewport
NextModel ==
    \/ set_size(ViewportSizes)
    \/ toggle_mode
    \/ dropEvent(MaxEvents, {day_index_to_x(scene, 2) + 10}, {RowAtMinute(scene, 127)})
    \/ import_events(MaxEvents, {[kind |-> "calendar", entries |-> << EntryA >>]})
    \/ keyPressEvent
    \/ mousePressEvent({"top"}, OnePointer)
    \/ mouseReleaseEvent

SpecModel == Init /\ [][NextModel]_vars

\* imports of every sampled file, under every sampled geometry
NextImport ==
    \/ set_size(ViewportSizes)
    \/ import_events(MaxEvents, Sources)

SpecImport == Init /\ [][NextImport]_vars

\* one event box whose handler is also handed presses during a session
NextSession ==
    \/ import_events(MaxDragEvents, OneEventCalendars)
    \/ mousePressEvent(PressSpots, AnyPointer)
    \/ mouseMoveEvent(ProposedYs(scene), ResizeDys(scene))
    \/ mouseReleaseEvent

SpecSession == Init /\ [][NextSession]_vars

\* whole-pixel pointer travel: a box dropped on the header line, moved to
\* 11 px below it or resized by 11 px, under every sampled geometry
WholePixelYs == { Px(HEADER_HEIGHT + 11) }
WholePixelDys == { Px(11) }

NextWholePixels ==
    \/ set_size(ViewportSizes)
    \/ dropEvent(MaxDragEvents, {day_index_to_x(scene, 2) + 10}, {HEADER_HEIGHT})
    \/ mousePressEvent(PressSpots, OnePointer)
    \/ mouseMoveEvent(WholePixelYs, WholePixelDys)
    \/ mouseReleaseEvent

SpecWholePixels == Init /\ [][NextWholePixels]_vars

\* the zoom buttons, with to-dos dropped on the grid between them
NextZoom ==
    \/ zoom_in(ViewportSizes)
    \/ zoom_out(ViewportSizes)
    \/ dropEvent(MaxDragEvents, PointerXs(scene), DropRows(scene))

SpecZoom == Init /\ [][NextZoom]_vars

(***************************************************************************)
(* CalendarModel called directly, as the unit test does: the caller holds  *)
(* the objects and hands them to add_event and remove_event in any order   *)
(***************************************************************************)
\* the event the caller builds (test_calendar_model_add_remove)
TestEvent == CalendarEvent("Test", week_start + 10 * 60, NoTz, 30)

\* m.add_event(ev) with a new object or with one the caller already holds
add_event_call ==
    /\ Len(events) < MaxEvents
    /\ \E o \in DOMAIN heap \cup {NewId(World)} :
         /\ o \notin DOMAIN heap => Cardinality(DOMAIN heap) < MaxEvents
         /\ Becomes(add_event(Allocate(World, o,
                                       IF o \in DOMAIN heap THEN heap[o] ELSE TestEvent),
                              o))
         /\ last' = [op |-> "add_event", ev |-> o]
    /\ UNCHANGED << scene, calendar_zoom >>

\* m.remove_event(ev) with an object the caller holds
remove_event_call ==
    /\ \E o \in DOMAIN heap :
         /\ Becomes(remove_event(World, o))
         /\ last' = [op |-> "remove_event", ev |-> o]
    /\ UNCHANGED << scene, calendar_zoom >>

NextApi ==
    \/ add_event_call
    \/ remove_event_call

SpecApi == Init /\ [][NextApi]_vars

(***************************************************************************)
(* The pure functions on sampled arguments                                 *)
(***************************************************************************)
\* snap_minutes applied to a number of minutes, and to its own result
InitSnap ==
    /\ scene = NewScene
    /\ heap = << >>
    /\ events = << >>
    /\ items = << >>
    /\ calendar_zoom = INITIAL_ZOOM
    /\ \E m \in 0..MaxMinutes : last = [op |-> "snap_minutes", arg |-> m, res |-> m, calls |-> 0]

SnapStep ==
    /\ last.op = "snap_minutes"
    /\ last.calls < 2
    /\ last' = [last EXCEPT !.res = snap_minutes(last.res), !.calls = @ + 1]
    /\ UNCHANGED << scene, heap, events, items, calendar_zoom >>

SpecSnap == InitSnap /\ [][SnapStep]_vars

\* pixel offsets into the grid: every whole pixel of it, and every offset
\* half-way between two minutes
GridOffsets(sc) ==
    { Px(p) : p \in 0..sc.grid_height }
      \cup { ((2 * m + 1) * sc.minute_pixel_factor) \div 2 : m \in 0..(total_minutes - 1) }

\* pixels_to_minutes applied to an offset, and minutes_to_pixels to its result
PixelsRoundTrip ==
    /\ last.op \notin {"pixels_round_trip", "minutes_round_trip"}
    /\ \E p \in GridOffsets(scene) :
         LET minutes == pixels_to_minutes(scene, p)
         IN  last' = [op |-> "pixels_round_trip", p |-> p, minutes |-> minutes,
                      back |-> minutes_to_pixels(scene, minutes)]
    /\ UNCHANGED << scene, heap, events, items, calendar_zoom >>

\* minutes_to_pixels applied to a minute of the span, and pixels_to_minutes
\* to its result
MinutesRoundTrip ==
    /\ last.op \notin {"pixels_round_trip", "minutes_round_trip"}
    /\ \E m \in 0..total_minutes :
         LET pixels == minutes_to_pixels(scene, m)
         IN  last' = [op |-> "minutes_round_trip", m |-> m, pixels |-> pixels,
                      back |-> pixels_to_minutes(scene, pixels)]
    /\ UNCHANGED << scene, heap, events, items, calendar_zoom >>

NextPixels ==
    \/ set_size(ViewportSizes)
    \/ PixelsRoundTrip
    \/ MinutesRoundTrip

SpecPixels == Init /\ [][NextPixels]_vars

\* week_monday applied to a date-time up to MaxDate minutes before or after
\* the origin, and the week start a window opened then would take
WeekMondayStep ==
    /\ last.op # "week_monday"
    /\ \E d \in (0 - MaxDate)..MaxDate :
         last' = [op |-> "week_monday", d |-> d, monday |-> week_monday(d),
                  week_start |-> WeekStartOf(d)]
    /\ UNCHANGED << scene, heap, events, items, calendar_zoom >>

SpecWeek == Init /\ [][WeekMondayStep]_vars

\* x_to_day_index applied under every sampled geometry
XToDayStep ==
    /\ last.op # "x_to_day_index"
    /\ \E x \in (0 - MaxX)..MaxX :
         last' = [op |-> "x_to_day_index", x |-> x, day |-> x_to_day_index(scene, x)]
    /\ UNCHANGED << scene, heap, events, items, calendar_zoom >>

NextGeom ==
    \/ set_size(GeomSizes)
    \/ XToDayStep

SpecGeom == Init /\ [][NextGeom]_vars

\* durations of the events a position is proposed for: below, at and above
\* the snap increment, an hour, 7 minutes less than the span, the span, a
\* whole day
MoveDurations == { 1, 7, 8, 15, 50, 60, 1073, 1080, 1440 }

\* proposed y positions: every seventh pixel row from above the header to
\* below the grid, and the grid's bottom less each duration
ProposedRows(sc) ==
    { Px(7 * n - 14) : n \in 0..((HEADER_HEIGHT + sc.grid_height + 56) \div 7) }
      \cup { day_bottom_y(sc) - minutes_to_pixels(sc, d) : d \in MoveDurations }

\* itemChange applied to a proposed position of a movable item, and again to
\* the position it returned, the event holding the start it wrote
ItemChangeTwice ==
    /\ last.op # "itemChange"
    /\ \E d \in MoveDurations, new_x \in PointerXs(scene) \cup {day_index_to_x(scene, 1)},
          new_y \in ProposedRows(scene) :
         LET it == NewEventItem(1)
             e == CalendarEvent("Gym", week_start + 10 * 60 + 7, NoTz, d)
             first == itemChange(scene, it, e, new_x, new_y)
             second == itemChange(scene, [it EXCEPT !.x = first.x, !.y = first.y],
                                  [e EXCEPT !.start = first.start, !.tz = first.tz],
                                  first.x, first.y)
         IN  last' = [op |-> "itemChange", duration_min |-> d,
                      new_x |-> new_x, new_y |-> new_y,
                      first |-> first, second |-> second]
    /\ UNCHANGED << scene, heap, events, items, calendar_zoom >>

NextMove ==
    \/ set_size(GeomSizes)
    \/ ItemChangeTwice

SpecMove == Init /\ [][NextMove]_vars

(***************************************************************************)
(* Properties                                                              *)
(***************************************************************************)
\* the item of the event the last handler acted on
LastItem == items[CHOOSE k \in 1..Len(items) : items[k].ev = last.ev]
LastEvent == heap[last.ev]
\* the item of event ev before the step
LastItemBefore(ev) == items[CHOOSE k \in 1..Len(items) : items[k].ev = ev]
\* the day a date-time falls on, counted from week_start's
DayOf(t) == (t \div MinutesPerDay) - (week_start \div MinutesPerDay)
\* the minutes of the event's start from the start hour of the column its
\* box was put in
MinutesFromStartHour(it, e) ==
    e.start - (week_start + x_to_day_index(scene, it.x) * MinutesPerDay + START_HOUR * 60)

\* C1: after a Moving position update the stored start, in minutes from the
\* grid's start hour, is at most total_minutes - duration_min, for every
\* event of positive duration.
C1_MoveKeepsBoxAboveGridEnd ==
    (last.op = "move" /\ LastEvent.duration_min > 0)
        => MinutesFromStartHour(LastItem, LastEvent)
             <= total_minutes - LastEvent.duration_min

\* C2: after a Moving position update the stored start falls on
\* week_start + d days for a day index d in 0..6, and d is 6 when the proposed
\* x is at or past the last column's right edge.
C2_MoveKeepsDayInWeek ==
    last.op = "move"
        => /\ DayOf(LastEvent.start) \in 0..(N_DAYS - 1)
           /\ last.new_x >= day_index_to_x(scene, N_DAYS)
                => DayOf(LastEvent.start) = N_DAYS - 1

\* C3: after a Resizing pointer-move the event's duration is at least one
\* snap increment.
C3_ResizeKeepsMinimumDuration ==
    last.op = "resize" => LastEvent.duration_min >= SNAP_MINUTES

\* C3 witness: a resize whose pointer went far above the box (the height
\* asked for is below one increment) left the duration at the minimum
C3_Witness ==
    /\ last.op = "resize"
    /\ LastItem.initial_height + last.dy < minutes_to_pixels(scene, SNAP_MINUTES)
    /\ LastEvent.duration_min = SNAP_MINUTES

\* C4: after a Resizing pointer-move the box's bottom edge, its top plus
\* minutes_to_pixels(duration_min), is not below day_bottom_y().
C4_ResizeKeepsBottomInGrid ==
    last.op = "resize"
        => LastItem.y + minutes_to_pixels(scene, LastEvent.duration_min)
             <= day_bottom_y(scene)

\* C1 witness of the move the claim is about: a move proposed below the grid
\* for an event whose duration is no multiple of the snap increment
C1_Witness ==
    /\ last.op = "move"
    /\ LastEvent.duration_min % SNAP_MINUTES # 0
    /\ last.new_y > day_bottom_y(scene)

Distance(a, b) == IF a >= b THEN a - b ELSE b - a

\* C5: for every m >= 0, snap_minutes(m) is a non-negative multiple of the
\* increment, no other multiple is nearer to m, a remainder of at least half
\* the increment rounds up and a smaller one rounds down; snap(12) = 15,
\* snap(7) = 0, snap(21) = 15, snap(37) = 30, snap(0) = 0, snap(60) = 60.
C5_SnapIsNearestMultiple ==
    (last.op = "snap_minutes" /\ last.calls = 1) =>
        LET m == last.arg
            s == last.res
            r == m % SNAP_MINUTES
        IN  /\ s >= 0
            /\ s % SNAP_MINUTES = 0
            /\ \A k \in 0..(MaxMinutes \div SNAP_MINUTES + 1) :
                 k * SNAP_MINUTES # s
                    => Distance(k * SNAP_MINUTES, m) > Distance(s, m)
            /\ s = IF 2 * r >= SNAP_MINUTES THEN m + (SNAP_MINUTES - r) ELSE m - r
            /\ m = 12 => s = 15
            /\ m = 7 => s = 0
            /\ m = 21 => s = 15
            /\ m = 37 => s = 30
            /\ m = 0 => s = 0
            /\ m = 60 => s = 60

\* C5 witness: snap_minutes was applied once to 12 and gave 15
C5_Witness ==
    /\ last.op = "snap_minutes"
    /\ last.calls = 1
    /\ last.arg = 12
    /\ last.res = 15

\* C6: snap_minutes is idempotent: applied to its own result it returns the
\* result, for every m >= 0.
C6_SnapIdempotent ==
    [][(last.op = "snap_minutes" /\ last.calls = 1) => last'.res = last.res]_vars

\* C6 witness: snap_minutes was applied twice, to a number that is no
\* multiple of the increment
C6_Witness ==
    /\ last.op = "snap_minutes"
    /\ last.calls = 2
    /\ last.arg % SNAP_MINUTES # 0
    /\ last.res % SNAP_MINUTES = 0

\* C7: under every geometry x_to_day_index(x) is in 0..N_DAYS-1; it is 0 for
\* x left of the gutter's end, N_DAYS-1 for x at or right of the last
\* column's right edge, and d for x inside column d.
C7_XToDayIndexClamped ==
    last.op = "x_to_day_index" =>
        /\ last.day \in 0..(N_DAYS - 1)
        /\ last.x < day_index_to_x(scene, 0) => last.day = 0
        /\ last.x >= day_index_to_x(scene, N_DAYS) => last.day = N_DAYS - 1
        /\ \A d \in 0..(N_DAYS - 1) :
             (day_index_to_x(scene, d) <= last.x /\ last.x < day_index_to_x(scene, d + 1))
                => last.day = d

\* C7 witness: under a column width other than the initial one, an x right of
\* the last column gave the last day
C7_Witness ==
    /\ last.op = "x_to_day_index"
    /\ scene.column_width # COLUMN_WIDTH
    /\ last.x > day_index_to_x(scene, N_DAYS)
    /\ last.day = N_DAYS - 1

\* C8: a removal takes exactly one entry out of the model's list, the entry
\* that is the removed object, and keeps every other entry in its order,
\* whether or not another entry has the same field values.
C8_RemoveByIdentity ==
    [][last'.op = "remove" =>
         /\ Cardinality(last'.evs) = 1
         /\ \E i \in 1..Len(events) :
              /\ events[i] \in last'.evs
              /\ events' = SubSeq(events, 1, i - 1) \o SubSeq(events, i + 1, Len(events))]_vars

\* C8 witness: after a removal the list still holds an entry whose fields
\* equal those of the removed object
C8_Witness ==
    /\ last.op = "remove"
    /\ \E i \in 1..Len(events) : heap[events[i]] \in last.removed

\* an entry of a file that has a start, and the start's wall-clock value is in
\* the shown week
HasStartInShownWeek(entry) ==
    /\ entry.has_begin
    /\ week_start <= entry.begin
    /\ entry.begin < week_start + 7 * MinutesPerDay

\* C9: a successful import appends to the model's list, in their order,
\* exactly the file's events whose start, its timezone stripped, is in
\* [week_start, week_start + 7 days), and the count it reports is the number
\* of entries the list gained; a file with 3 events in the week and 2 outside
\* gives 3.
C9_ImportAddsShownWeek ==
    [][last'.op = "import" =>
         LET wanted == SelectSeq(last'.source.entries, HasStartInShownWeek)
             gained == Len(events') - Len(events)
         IN  /\ gained = Len(wanted)
             /\ last'.count_added = gained
             /\ SubSeq(events', 1, Len(events)) = events
             /\ \A i \in 1..Len(wanted) :
                  LET e == heap'[events'[Len(events) + i]]
                  IN  /\ e.title = (IF wanted[i].name = NoName THEN "Imported Event"
                                    ELSE wanted[i].name)
                      /\ e.duration_min = (IF wanted[i].seconds # 0
                                           THEN wanted[i].seconds \div 60
                                           ELSE DEFAULT_IMPORT_DURATION)
             /\ \A i \in 1..Len(events), j \in 1..gained :
                  events[i] # events'[Len(events) + j]]_vars

\* C9 witness: the file with 3 events in the week and 2 outside was imported
\* and 3 were counted
C9_Witness ==
    /\ last.op = "import"
    /\ Len(last.source.entries) = 5
    /\ Len(SelectSeq(last.source.entries, HasStartInShownWeek)) = 3
    /\ last.count_added = 3
    /\ Len(events) = 3

\* C10: an import from a file that is missing, unreadable or no calendar ends
\* with the error as a value and leaves the model's list, its events and the
\* scene's items as they were.
C10_FailedImportChangesNothing ==
    [][(last'.op \in {"import", "import_error"} /\ last'.source.kind # "calendar")
          => /\ last'.op = "import_error"
             /\ UNCHANGED << heap, events, items >>]_vars

\* C10 witness: an import of a file that is no calendar ended in the error,
\* the model holding events
C10_Witness ==
    /\ last.op = "import_error"
    /\ last.source.kind = "unparsable"
    /\ Len(events) > 0

\* C11: a drop of a to-do payload of duration D at (x, y) adds exactly one
\* event, of duration D, whose start is week_start + day index days at the
\* start hour plus the snapped minutes the Moving logic gives for that
\* position and duration: y clamped to [HEADER_HEIGHT, day_bottom_y() -
\* minutes_to_pixels(D)], divided by the scale, truncated, snapped; day index
\* 2 with 127 raw minutes and D = 60 gives 08:00 on week_start + 2 days.
C11_DropResolvesAsMove ==
    [][last'.op = "drop" =>
         LET D == last'.duration_min
             day == x_to_day_index(scene, last'.x)
             y == Min(Max(Px(HEADER_HEIGHT), Px(last'.row)),
                      day_bottom_y(scene) - minutes_to_pixels(scene, D))
             minutes == snap_minutes(IntOfQuotient(y - Px(HEADER_HEIGHT),
                                                   scene.minute_pixel_factor))
             e == heap'[last'.ev]
         IN  /\ Len(events') = Len(events) + 1
             /\ SubSeq(events', 1, Len(events)) = events
             /\ events'[Len(events')] = last'.ev
             /\ last'.ev \notin DOMAIN heap
             /\ e.duration_min = D
             /\ e.start = week_start + day * MinutesPerDay + START_HOUR * 60 + minutes
             /\ (day = 2 /\ last'.row = RowAtMinute(scene, 127) /\ D = 60)
                  => e.start = week_start + 2 * MinutesPerDay + 8 * 60]_vars

\* C11 witness: a drop on the grid's bottom line, where the two clamps differ
C11_Witness ==
    /\ last.op = "drop"
    /\ last.row = HEADER_HEIGHT + scene.grid_height
    /\ LastEvent.duration_min = 60

\* C12: after any sequence of add_event and remove_event calls, add_event
\* called twice with the same object included, no two entries of the model's
\* list are the same object.
C12_NoDuplicateEntries ==
    \A i, j \in 1..Len(events) : i # j => events[i] # events[j]

\* C12 witness: add_event was called with an object that was already an entry
C12_Witness ==
    /\ last.op = "add_event"
    /\ \E i \in 1..(Len(events) - 1) : events[i] = last.ev

\* C13: after construction and after every set_size, scene_width is
\* column_width * 7 + TIME_LABEL_WIDTH and the scale factor is grid_height /
\* total_minutes (its numerator is the current grid_height), so
\* minutes_to_pixels of the whole span is grid_height.
C13_SceneGeometryConsistent ==
    /\ scene.scene_width = scene.column_width * 7 + TIME_LABEL_WIDTH
    /\ scene.minute_pixel_factor = scene.grid_height
    /\ minutes_to_pixels(scene, (END_HOUR - START_HOUR) * 60) = Px(scene.grid_height)

\* C13 witness: set_size has given the scene another column width and another
\* grid height than the constructor's
C13_Witness ==
    /\ last.op = "set_size"
    /\ scene.column_width # COLUMN_WIDTH
    /\ scene.grid_height # DEFAULT_GRID_MIN_HEIGHT
    /\ scene.minute_pixel_factor = scene.grid_height

\* C14: when set_size has completed, every entry of the model has its item,
\* and every item is at the position derived from its event's start under the
\* new geometry: x = day_index_to_x(day) + PADDING, y = HEADER_HEIGHT +
\* minutes_to_pixels(minutes from the start hour); its height is
\* minutes_to_pixels(duration_min).
C14_SetSizeRederivesItems ==
    last.op = "set_size" =>
        /\ Len(items) = Len(events)
        /\ \A k \in 1..Len(items) :
             LET e == heap[items[k].ev]
                 day == DayOf(e.start)
                 minutes == e.start - (week_start + day * MinutesPerDay + START_HOUR * 60)
             IN  /\ items[k].ev = events[k]
                 /\ items[k].x = day_index_to_x(scene, day) + PADDING
                 /\ items[k].y = Px(HEADER_HEIGHT) + minutes * scene.grid_height
                 /\ BoxHeight(scene, e) = e.duration_min * scene.grid_height

\* C14 witness: set_size has changed the column width and the grid height
\* under an event that is not in the first column nor at the grid's top
C14_Witness ==
    /\ last.op = "set_size"
    /\ scene.column_width # COLUMN_WIDTH
    /\ scene.grid_height # DEFAULT_GRID_MIN_HEIGHT
    /\ \E k \in 1..Len(items) :
         /\ items[k].x > day_index_to_x(scene, 1)
         /\ items[k].y > Px(HEADER_HEIGHT)

\* C15: a left pointer-down in Idle enters Resizing when its local y is at
\* least the box height less HANDLE_HEIGHT and Moving otherwise; a pointer-up
\* in Moving or Resizing returns to Idle with every resizing flag cleared; a
\* pointer-move keeps the state of a session, and in Idle changes neither
\* start nor duration.
C15_SessionTransitions ==
    [][/\ (last'.op = "press" /\ Mode(items) = "Idle") =>
            Mode(items') =
               (IF last'.local_y >= BoxHeight(scene, heap[last'.ev]) - Px(HANDLE_HEIGHT)
                THEN "Resizing" ELSE "Moving")
       /\ last'.op = "release" =>
            /\ Mode(items) \in {"Moving", "Resizing"}
            /\ Mode(items') = "Idle"
            /\ \A j \in 1..Len(items') : ~items'[j].resizing
       /\ last'.op \in {"move", "resize"} => Mode(items') = Mode(items)
       /\ last'.op = "move" => Mode(items) = "Moving"
       /\ last'.op = "resize" => Mode(items) = "Resizing"
       /\ last'.op = "hover" =>
            /\ Mode(items) = "Idle"
            /\ Mode(items') = "Idle"
            /\ heap' = heap]_vars

\* C15 witness: a session that resized an event has ended and the planner is
\* Idle again, the flag cleared
C15_Witness ==
    /\ last.op = "release"
    /\ Mode(items) = "Idle"
    /\ LastEvent.duration_min = SNAP_MINUTES
    /\ ~LastItem.resizing

\* C16: a pointer-down received while a session is active starts no other
\* session: the state stays Moving or Resizing as it was, and the item that
\* holds the pointer keeps its resizing flag, its captured pointer offset and
\* its captured initial height.
C16_NoNestedSession ==
    [][(last'.op = "press" /\ Mode(items) # "Idle") =>
         /\ Mode(items') = Mode(items)
         /\ \A j \in 1..Len(items) :
              items[j].grab =>
                 /\ items'[j].resizing = items[j].resizing
                 /\ items'[j].drag_start_y = items[j].drag_start_y
                 /\ items'[j].initial_height = items[j].initial_height]_vars

\* C16 witness: a pointer-down has arrived during a session
C16_Witness ==
    /\ last.op = "press"
    /\ LastItem.resizing
    /\ LastItem.initial_height # BoxHeight(scene, LastEvent)

\* C17: a Moving position update leaves the event's duration as it was, for
\* every event and every proposed position.
C17_MoveKeepsDuration ==
    [][last'.op = "move" =>
         heap'[last'.ev].duration_min = heap[last'.ev].duration_min]_vars

\* C17 witness: a move proposed below the grid has put the box against the
\* grid's end (past it, by the snap), its duration not a multiple of the
\* snap increment and still what the import gave it
C17_Witness ==
    /\ last.op = "move"
    /\ last.new_y > day_bottom_y(scene)
    /\ LastItem.y + BoxHeight(scene, LastEvent) > day_bottom_y(scene)
    /\ LastEvent.duration_min \in {7, 50}

\* C18: a Resizing session leaves the event's start as it was, in every
\* pointer-move and in the pointer-up with the geometry re-derivation done
\* there.
C18_ResizeKeepsStart ==
    [][/\ last'.op = "resize" => heap'[last'.ev].start = heap[last'.ev].start
       /\ (last'.op = "release" /\ Mode(items) = "Resizing") =>
            heap'[last'.ev].start = heap[last'.ev].start]_vars

\* C18 witness: a Resizing session that changed the duration has been
\* committed by a pointer-up
C18_Witness ==
    /\ last.op = "release"
    /\ LastEvent.duration_min > 60
    /\ LastItem.initial_height > 0

\* C19: for every pixel offset p of the grid, minutes_to_pixels of
\* pixels_to_minutes(p) is less than one minute's worth of pixels
\* (grid_height / total_minutes) away from p, and pixels_to_minutes of
\* minutes_to_pixels(m) is m for every minute m of the span, under every
\* grid height.
C19_PixelMinuteRoundTrip ==
    /\ last.op = "pixels_round_trip" =>
         /\ last.p \in 0..Px(scene.grid_height)
         /\ Distance(last.back, last.p) < minutes_to_pixels(scene, 1)
    /\ last.op = "minutes_round_trip" => last.back = last.m

\* C19 witness: under another grid height than the initial one, an offset
\* half-way between two minutes came back half a minute off
C19_Witness ==
    /\ last.op = "pixels_round_trip"
    /\ scene.grid_height # DEFAULT_GRID_MIN_HEIGHT
    /\ 2 * Distance(last.back, last.p) = minutes_to_pixels(scene, 1)

\* C20: for every date-time d, week_monday(d) is on a Monday, is not later
\* than d and is less than 7 days before d; the week start the grid is built
\* with is that Monday at 00:00 (for a d of the shown week, week_start).
C20_WeekMondayIsMonday ==
    last.op = "week_monday" =>
        /\ weekday(last.monday) = 0
        /\ last.monday <= last.d
        /\ last.d - last.monday < 7 * MinutesPerDay
        /\ last.week_start % MinutesPerDay = 0
        /\ last.week_start \div MinutesPerDay = last.monday \div MinutesPerDay
        /\ (week_start <= last.d /\ last.d < week_start + 7 * MinutesPerDay)
              => last.week_start = week_start

\* C20 witness: week_monday was applied to a Sunday before the origin, at a
\* time of day other than 00:00, and went back 6 days
C20_Witness ==
    /\ last.op = "week_monday"
    /\ weekday(last.d) = 6
    /\ last.d < 0
    /\ last.d % MinutesPerDay # 0
    /\ last.d - last.monday = 6 * MinutesPerDay

\* C21: every pointer-move of a session writes the model in that step (the
\* start in Moving, from the position the item takes; the duration in
\* Resizing), and the pointer-up changes neither: the event's start and
\* duration after the pointer-up are those after the session's last
\* pointer-move.
C21_ReleaseCommitsLiveValues ==
    [][/\ last'.op = "move" =>
            LET it == items'[CHOOSE k \in 1..Len(items') : items'[k].ev = last'.ev]
            IN  (it.x # LastItemBefore(last'.ev).x \/ it.y # LastItemBefore(last'.ev).y)
                   => it.y = Px(HEADER_HEIGHT)
                               + minutes_to_pixels(scene,
                                    heap'[last'.ev].start
                                      - (week_start
                                         + x_to_day_index(scene, it.x) * MinutesPerDay
                                         + START_HOUR * 60))
       /\ last'.op = "release" =>
            /\ heap'[last'.ev].start = heap[last'.ev].start
            /\ heap'[last'.ev].duration_min = heap[last'.ev].duration_min]_vars

\* C21 witness: a pointer-up has ended a session on an event whose duration a
\* Resizing pointer-move wrote and whose start a Moving pointer-move wrote
\* (the grid's top, from a proposed y above the header)
C21_Witness ==
    /\ last.op = "release"
    /\ LastItem.initial_height > 0
    /\ LastEvent.duration_min \notin {7, 50, 60}
    /\ LastEvent.start % MinutesPerDay = START_HOUR * 60
    /\ LastItem.selected

\* C22: after a Moving position update the item's x is day_index_to_x(d) +
\* PADDING for the day d, in 0..6, of the stored start, and its y is
\* HEADER_HEIGHT + minutes_to_pixels of the stored start's minutes from the
\* start hour; a proposed y above the header gives y = HEADER_HEIGHT.
C22_MovePositionMatchesStart ==
    last.op = "move" =>
        LET d == DayOf(LastEvent.start)
            minutes == LastEvent.start
                         - (week_start + d * MinutesPerDay + START_HOUR * 60)
        IN  /\ d \in 0..(N_DAYS - 1)
            /\ LastItem.x = day_index_to_x(scene, d) + PADDING
            /\ LastItem.y = Px(HEADER_HEIGHT) + minutes_to_pixels(scene, minutes)
            /\ last.new_y < Px(HEADER_HEIGHT) => LastItem.y = Px(HEADER_HEIGHT)

\* C22 witness: a move proposed above the header and 10 px into the third
\* column has put the box on the header line at the column's padded left edge
C22_Witness ==
    /\ last.op = "move"
    /\ last.new_y < Px(HEADER_HEIGHT)
    /\ last.new_x = day_index_to_x(scene, 2) + 10
    /\ LastItem.x = day_index_to_x(scene, 2) + PADDING
    /\ LastItem.y = Px(HEADER_HEIGHT)

\* C23: in Moving and in Resizing the pixels are converted by
\* pixels_to_minutes (rounding to the nearest minute) before the snap: after
\* a move the start's minutes from the start hour are
\* snap_minutes(pixels_to_minutes(clamped y - HEADER_HEIGHT)), and after a
\* resize the duration is max(SNAP_MINUTES,
\* snap_minutes(pixels_to_minutes(clamped height))).
C23_ConversionRoundsToNearest ==
    [][/\ (last'.op = "move"
            /\ (last'.new_x # LastItemBefore(last'.ev).x
                \/ last'.new_y # LastItemBefore(last'.ev).y)) =>
            LET e == heap[last'.ev]
                max_y == day_bottom_y(scene) - minutes_to_pixels(scene, e.duration_min)
                clamped_y == Min(Max(Px(HEADER_HEIGHT), last'.new_y), max_y)
            IN  heap'[last'.ev].start
                  - (week_start + x_to_day_index(scene, last'.new_x) * MinutesPerDay
                     + START_HOUR * 60)
                = snap_minutes(pixels_to_minutes(scene, clamped_y - Px(HEADER_HEIGHT)))
       /\ last'.op = "resize" =>
            LET it == LastItemBefore(last'.ev)
                clamped_height ==
                    Min(Max(minutes_to_pixels(scene, SNAP_MINUTES),
                            it.initial_height + last'.dy),
                        day_bottom_y(scene) - it.y)
            IN  heap'[last'.ev].duration_min
                  = Max(SNAP_MINUTES,
                        snap_minutes(pixels_to_minutes(scene, clamped_height)))]_vars

\* C23 witness: at zoom 3.0 a move to 11 px below the header line (7.92
\* minutes) has left the start at the start hour, and a resize by 11 px of
\* a 60-minute box (67.92 minutes) has left the duration at 60
C23_Witness ==
    /\ scene.grid_height = 1500
    /\ \/ /\ last.op = "move"
          /\ last.new_y = Px(HEADER_HEIGHT + 11)
          /\ LastItem.y = Px(HEADER_HEIGHT)
       \/ /\ last.op = "resize"
          /\ last.dy = Px(11)
          /\ LastItem.initial_height = minutes_to_pixels(scene, 60)
          /\ LastEvent.duration_min = 60

\* C24: set_size and refresh_background (a viewport resize, a zoom, a theme
\* toggle) leave the model as it was: the same objects in the same order,
\* each with the start, the duration and the color index it had.
C24_RefreshKeepsModel ==
    [][last'.op \in {"set_size", "toggle_mode"} =>
         /\ events' = events
         /\ \A o \in DOMAIN heap :
              /\ o \in DOMAIN heap'
              /\ heap'[o].start = heap[o].start
              /\ heap'[o].duration_min = heap[o].duration_min
              /\ heap'[o].color_idx = heap[o].color_idx]_vars

\* C24 witness: set_size has changed the grid height under an imported
\* event whose duration is no multiple of the snap increment and whose box
\* reaches the grid's end
C24_Witness ==
    /\ last.op = "set_size"
    /\ scene.grid_height # DEFAULT_GRID_MIN_HEIGHT
    /\ \E k \in 1..Len(items) :
         /\ heap[items[k].ev].duration_min = 50
         /\ items[k].y + BoxHeight(scene, heap[items[k].ev]) >= day_bottom_y(scene)

\* C25: after any sequence of drops, imports, removals by the Delete key and
\* set_size / refresh_background calls, the scene holds exactly one EventItem
\* for each entry of the model and no EventItem for an object that is not in
\* the model.
C25_OneItemPerEvent ==
    /\ \A i \in 1..Len(events) :
         Cardinality({k \in 1..Len(items) : items[k].ev = events[i]}) = 1
    /\ \A k \in 1..Len(items) :
         \E i \in 1..Len(events) : events[i] = items[k].ev
    /\ Len(items) = Len(events)

\* C25 witness: the Delete key has removed one of three events, not the last
\* added, and two events with their two items remain
C25_Witness ==
    /\ last.op = "remove"
    /\ Cardinality(last.evs) = 1
    /\ Len(events) = 2
    /\ \E o \in last.evs : o < events[2]
    /\ Len(items) = 2

\* C26: for every event of at least one snap increment, under every grid
\* height, the box has a pointer-down position that starts a Moving session:
\* its height minutes_to_pixels(duration_min) exceeds HANDLE_HEIGHT, so a
\* press at the box's top is above the resize strip.
C26_BoxHasMovingSpot ==
    \A k \in 1..Len(items) :
        LET e == heap[items[k].ev]
            h == BoxHeight(scene, e)
        IN  e.duration_min >= SNAP_MINUTES =>
              /\ h > Px(HANDLE_HEIGHT)
              /\ PressY(h, "top") < h - Px(HANDLE_HEIGHT)

\* C26 witness: a pointer-down at the very top of a box of the minimum
\* duration has started a Resizing session
C26_Witness ==
    /\ last.op = "press"
    /\ last.local_y = 0
    /\ LastEvent.duration_min = SNAP_MINUTES
    /\ LastItem.resizing
    /\ Mode(items) = "Resizing"

\* the minutes of a start from the start hour of its day
StartMinutes(e) == (e.start % MinutesPerDay) - START_HOUR * 60
StartOnSnapGrid(e) == StartMinutes(e) >= 0 /\ StartMinutes(e) % SNAP_MINUTES = 0
DurationOnSnapGrid(e) == e.duration_min > 0 /\ e.duration_min % SNAP_MINUTES = 0

C28_ItemChangeIdempotent ==
    last.op = "itemChange" =>
        /\ last.second.x = last.first.x
        /\ last.second.y = last.first.y
        /\ last.second.start = last.first.start

\* C28 witness: the position was proposed below the grid for a duration
\* that is no multiple of the snap increment, in another column than the
\* first and under another geometry than the initial one; the snap took the
\* returned y past the clamp's bound, and the second application clamped again
C28_Witness ==
    /\ last.op = "itemChange"
    /\ scene.grid_height # DEFAULT_GRID_MIN_HEIGHT
    /\ last.duration_min = 50
    /\ last.new_y > day_bottom_y(scene)
    /\ last.first.x > day_index_to_x(scene, 1)
    /\ last.first.y > day_bottom_y(scene) - minutes_to_pixels(scene, 50)
    /\ last.second = last.first

====
